---- MODULE Spec2Model ----
(***************************************************************************)
(* Model of the chunk/packet analysis engine of src/lib/analysis/index.ts  *)
(* (class DemoAnalyzer).  The bit cursor (BitBuffer), the chunk decoder    *)
(* and the message registries are collaborators imported from the package  *)
(* @mixednuts/demo; they are modelled from their contract in spec.md, §6.  *)
(***************************************************************************)
EXTENDS Integers, Sequences, FiniteSets, TLC

(***************************************************************************)
(* Bounds of the model.                                                    *)
(***************************************************************************)
MaxWalkLen == 3      \* longest payload (bytes) given to the packet walker alone
MaxChunks == 2       \* most chunks in a fragment
MaxTime == 1         \* largest measured chunk parse time (ms)
MaxSample == 22      \* longest payload given to analyzeChunk alone for its samples
MaxType == 130       \* largest type code given to the registries alone

(***************************************************************************)
(* Program constants: the enum values index.ts reads.                      *)
(***************************************************************************)
DEM_FileHeader == 1
DEM_Packet == 7
DEM_SignonPacket == 8
DEM_FullPacket == 13
DEM_SpawnGroups == 15
DEM_Unnamed == 99    \* a command code EDemoCommands has no name for
net_NOP == 0
TypeBits == 4        \* the walker's minimum of bits for a packet type
SampleLen == 10      \* bytes of a packet's payload kept as raw sample

(***************************************************************************)
(* Optional values: a field that is undefined in JavaScript is None, a     *)
(* field that was assigned v is Some(v).                                   *)
(***************************************************************************)
None == <<>>
Some(v) == <<v>>
\* JavaScript truthiness of an optional string: defined and not empty.
Truthy(o) == o # None /\ o[1] # ""
\* JavaScript !x of an optional boolean.
Falsy(o) == o = None \/ o[1] = FALSE

\* Array.from(bytes).map((b) => b.toString(16).padStart(2, '0')).join(' ')
HexDigits ==
    << "0", "1", "2", "3", "4", "5", "6", "7", "8", "9", "a", "b", "c", "d", "e", "f" >>
HexByte(b) == HexDigits[(b \div 16) + 1] \o HexDigits[(b % 16) + 1]
RECURSIVE toHex(_)
toHex(bytes) ==
    IF Len(bytes) = 0 THEN ""
    ELSE IF Len(bytes) = 1 THEN HexByte(bytes[1])
    ELSE HexByte(bytes[1]) \o " " \o toHex(Tail(bytes))

Min(a, b) == IF a < b THEN a ELSE b

RECURSIVE SeqsUpTo(_, _)
SeqsUpTo(S, n) ==
    IF n = 0 THEN {<<>>}
    ELSE LET shorter == SeqsUpTo(S, n - 1)
         IN shorter \cup {Append(s, b) : s \in {t \in shorter : Len(t) = n - 1}, b \in S}

(***************************************************************************)
(* Bit cursor (BitBuffer of @mixednuts/demo/buffers).  Bits are read least *)
(* significant first; a read past the end of the buffer throws.  A read    *)
(* returns [ok, value, cursor]; ok = FALSE stands for the thrown error.    *)
(***************************************************************************)
ReadPastEnd == "read past end of buffer"

Bit(data, i) == (data[(i \div 8) + 1] \div (2 ^ (i % 8))) % 2

remaining_bits(data, cursor) == 8 * Len(data) - cursor

\* The whole bytes left after the cursor.
remaining_bytes(data, cursor) == remaining_bits(data, cursor) \div 8

RECURSIVE BitsValue(_, _, _)
BitsValue(data, cursor, n) ==
    IF n = 0 THEN 0 ELSE Bit(data, cursor) + 2 * BitsValue(data, cursor + 1, n - 1)

Thrown(cursor) == [ok |-> FALSE, value |-> 0, cursor |-> cursor, error |-> ReadPastEnd]

read_bits(data, cursor, n) ==
    IF n > remaining_bits(data, cursor) THEN Thrown(cursor)
    ELSE [ok |-> TRUE, value |-> BitsValue(data, cursor, n), cursor |-> cursor + n,
          error |-> ""]

\* 6 bits; bits 4 and 5 select an extension of 4, 8 or 28 more bits.
read_uvarbit(data, cursor) ==
    LET h == read_bits(data, cursor, 6)
    IN  IF ~h.ok THEN h
        ELSE LET sel == (h.value \div 16) % 4
                 low == h.value % 16
                 n == CASE sel = 1 -> 4 [] sel = 2 -> 8 [] OTHER -> 28
             IN  IF sel = 0 THEN h
                 ELSE LET e == read_bits(data, h.cursor, n)
                      IN  IF ~e.ok THEN e
                          ELSE [e EXCEPT !.value = low + 16 * e.value]

\* Base-128 varint of at most 5 bytes, each byte read at the (unaligned) cursor.
\* The fifth byte needs a buffer of more than 5 bytes, so within the bounds of
\* this model the sum stays far below 2^32 and the 32-bit wrap never applies.
RECURSIVE VarInt(_, _, _, _)
VarInt(data, cursor, shift, acc) ==
    LET b == read_bits(data, cursor, 8)
    IN  IF ~b.ok THEN b
        ELSE LET sum == acc + (b.value % 128) * (2 ^ shift)
             IN  IF b.value < 128 \/ shift = 28 THEN [b EXCEPT !.value = sum]
                 ELSE VarInt(data, b.cursor, shift + 7, sum)

read_uvarint32(data, cursor) == VarInt(data, cursor, 0, 0)

read_bytes(data, cursor, n) ==
    IF 8 * n > remaining_bits(data, cursor) THEN Thrown(cursor)
    ELSE [ok |-> TRUE,
          value |-> [k \in 1..n |-> BitsValue(data, cursor + 8 * (k - 1), 8)],
          cursor |-> cursor + 8 * n, error |-> ""]

(***************************************************************************)
(* Message registries (Registry.* of @mixednuts/demo).  names is a         *)
(* registry's enum, types the codes its isType accepts; a few codes stand  *)
(* for each table, type 4 is claimed by two registries and type 2 by none. *)
(***************************************************************************)
Registry ==
    [NetMessageBase |->
        [names |-> (0 :> "net_NOP" @@ 1 :> "net_Disconnect" @@ 4 :> "net_Tick"),
         types |-> {0, 1, 4}],
     NetMessage |->
        [names |-> (4 :> "svc_Tick" @@ 40 :> "svc_ServerInfo"), types |-> {4, 40}],
     UserMessage |-> [names |-> (64 :> "UM_AchievementEvent"), types |-> {64}],
     CitadelUserMessage |-> [names |-> (80 :> "k_EUserMsg_Damage"), types |-> {80}],
     GameEvent |-> [names |-> (96 :> "GE_VDebugGameSessionIDEvent"), types |-> {96}],
     TempEntity |-> [names |-> (112 :> "TE_EffectDispatchId"), types |-> {112}],
     CitadelGameEvent |-> [names |-> (128 :> "GE_FireBullets"), types |-> {128}]]

\* The analyzer's list of registries, in its order.
messageTypeRegistries ==
    << "NetMessageBase", "NetMessage", "UserMessage", "CitadelUserMessage",
       "GameEvent", "TempEntity", "CitadelGameEvent" >>

\* What the decoders do is the environment's choice: the packet types whose
\* decode throws and the registries in which it does, the commands whose decode
\* throws, and the message of the thrown error.
Envs ==
    { [throwTypes |-> {}, throwIn |-> {}, throwCommands |-> {},
       message |-> "decode failed"],
      [throwTypes |-> {1, 64}, throwIn |-> {"NetMessageBase", "UserMessage"},
       throwCommands |-> {DEM_FileHeader, DEM_Unnamed}, message |-> "decode failed"],
      [throwTypes |-> {1, 4}, throwIn |-> {"NetMessageBase"},
       throwCommands |-> {DEM_Unnamed}, message |-> ""] }

VARIABLES
    env,          \* the decoders' behaviour during this run
    w,            \* the packet walker: its cursor, counter and packet list
    totalChunks,  \* analysis.totalChunks
    chunks,       \* analysis.chunks
    summary,      \* analysis.summary
    performance,  \* analysis.performance
    pc,           \* where analyzeFragment is
    input,        \* the chunks of the fragment under analysis
    previous,     \* the report an earlier analyzeFragment of the same buffer returned
    call          \* one call of resolveMessageTypeName or decodeNetworkPacket

vars == <<env, w, totalChunks, chunks, summary, performance, pc, input, previous, call>>

(***************************************************************************)
(* DemoAnalyzer.resolveMessageTypeName                                     *)
(***************************************************************************)
\* Mutant: the registries are searched from the last to the first.
RECURSIVE FirstNaming_LastFirst(_, _)
FirstNaming_LastFirst(type, i) ==
    LET k == Len(messageTypeRegistries) + 1 - i
    IN  IF i > Len(messageTypeRegistries) THEN 0
        ELSE IF type \in DOMAIN Registry[messageTypeRegistries[k]].names
                  /\ Registry[messageTypeRegistries[k]].names[type] # ""
             THEN k
             ELSE FirstNaming_LastFirst(type, i + 1)

RECURSIVE FirstNaming(_, _)
FirstNaming(type, i) ==
    IF i > Len(messageTypeRegistries) THEN 0
    ELSE IF type \in DOMAIN Registry[messageTypeRegistries[i]].names
              /\ Registry[messageTypeRegistries[i]].names[type] # ""
         THEN i
         ELSE FirstNaming(type, i + 1)

resolveMessageTypeName(type) ==
    LET i == FirstNaming(type, 1)
    IN  IF i = 0 THEN "unknown" ELSE Registry[messageTypeRegistries[i]].names[type]

(***************************************************************************)
(* DemoAnalyzer.decodeNetworkPacket                                        *)
(***************************************************************************)
RECURSIVE FirstClaiming(_, _)
FirstClaiming(type, i) ==
    IF i > Len(messageTypeRegistries) THEN 0
    ELSE IF type \in Registry[messageTypeRegistries[i]].types THEN i
         ELSE FirstClaiming(type, i + 1)

UnknownMessageType(type) == "Unknown message type: " \o ToString(type)

\* registry.decode(type, data): the decoded message, or a thrown error.
RegistryDecode(registry, type, data, e) ==
    IF type \in e.throwTypes /\ registry \in e.throwIn
    THEN [success |-> FALSE, data |-> None, error |-> Some(e.message)]
    ELSE [success |-> TRUE,
          data |-> Some([registry |-> registry, type |-> type, bytes |-> data]),
          error |-> None]

\* Mutant: when the first claiming registry throws, the next claiming one is tried.
decodeNetworkPacket_Fallback(type, data, e) ==
    LET i == FirstClaiming(type, 1)
    IN  IF i = 0
        THEN [success |-> FALSE, data |-> None, error |-> Some(UnknownMessageType(type)),
              invoked |-> <<>>]
        ELSE LET r == RegistryDecode(messageTypeRegistries[i], type, data, e)
                 k == FirstClaiming(type, i + 1)
             IN  IF r.success \/ k = 0
                 THEN [success |-> r.success, data |-> r.data, error |-> r.error,
                       invoked |-> <<messageTypeRegistries[i]>>]
                 ELSE LET q == RegistryDecode(messageTypeRegistries[k], type, data, e)
                      IN  [success |-> q.success, data |-> q.data, error |-> q.error,
                           invoked |-> <<messageTypeRegistries[i],
                                         messageTypeRegistries[k]>>]

\* Mutant: a type no registry claims is handed to the first registry.
decodeNetworkPacket_UnknownToFirst(type, data, e) ==
    LET i == FirstClaiming(type, 1)
        k == IF i = 0 THEN 1 ELSE i
        r == RegistryDecode(messageTypeRegistries[k], type, data, e)
    IN  [success |-> r.success, data |-> r.data, error |-> r.error,
         invoked |-> <<messageTypeRegistries[k]>>]

\* The result {success, data, error} of the call; invoked lists the registries
\* whose decode the call ran.
decodeNetworkPacket(type, data, e) ==
    LET i == FirstClaiming(type, 1)
    IN  IF i = 0
        THEN [success |-> FALSE, data |-> None, error |-> Some(UnknownMessageType(type)),
              invoked |-> <<>>]
        ELSE LET r == RegistryDecode(messageTypeRegistries[i], type, data, e)
             IN  [success |-> r.success, data |-> r.data, error |-> r.error,
                  invoked |-> <<messageTypeRegistries[i]>>]

(***************************************************************************)
(* DemoAnalyzer.analyzeNetworkPackets.  The walker's state is the record   *)
(* [pc, data, command, cursor, packetIndex, packets, error]; pc is "begin" *)
(* before the cursor is made, "loop" at the loop head, "returned" after    *)
(* return packets and "thrown" when an exception left the function.  The   *)
(* measured parseTimeMs of a packet is not part of the model.              *)
(***************************************************************************)
NotEnoughBits(n) == "Not enough bits for packet type (" \o ToString(n) \o " < 4)"
SizeExceeds(size, n) ==
    "Size " \o ToString(size) \o " > remaining bytes " \o ToString(n)

NoCall == [op |-> "none", type |-> 0, data |-> <<>>, result |-> None]

IdleWalker ==
    [pc |-> "idle", data |-> <<>>, command |-> 0, cursor |-> 0, packetIndex |-> 0,
     packets |-> <<>>, error |-> None]

NewWalker(data, command) ==
    [pc |-> "begin", data |-> data, command |-> command, cursor |-> 0,
     packetIndex |-> 0, packets |-> <<>>, error |-> None]

NewPacket(packetIndex, cursor) ==
    [packetIndex |-> packetIndex, cursor |-> cursor, type |-> 0, typeName |-> "unknown",
     size |-> 0, success |-> FALSE, error |-> None, remainingBytesAfter |-> 0,
     rawDataSample |-> None, decodedData |-> None, decodeSuccess |-> None,
     decodeError |-> None]

\* Mutant: the leading field of a spawn-groups chunk is not consumed.
WalkStart_NoLeadingField(s) == [s EXCEPT !.pc = "loop"]

\* Lines 117-123: the cursor is made; a spawn-groups chunk has a leading field.
WalkStart(s) ==
    IF s.command = DEM_SpawnGroups
    THEN LET r == read_uvarbit(s.data, 0)
         IN  IF r.ok THEN [s EXCEPT !.pc = "loop", !.cursor = r.cursor]
             ELSE [s EXCEPT !.pc = "thrown", !.error = Some(r.error)]
    ELSE [s EXCEPT !.pc = "loop"]

\* Mutant: the failed packet is dropped (break without push).
PushAndBreak_Drops(s, cursor, packet) ==
    [s EXCEPT !.pc = "returned", !.cursor = cursor]

\* packets.push(packet); break
PushAndBreak(s, cursor, packet) ==
    [s EXCEPT !.pc = "returned", !.cursor = cursor, !.packets = Append(@, packet)]

\* packets.push(packet); packetIndex++; next iteration
PushAndContinue(s, cursor, packet) ==
    [s EXCEPT !.cursor = cursor, !.packets = Append(@, packet),
              !.packetIndex = @ + 1]

\* Mutant: the bytes left are taken before the payload is read.
ReadPayload_LeftBefore(s, cursor, packet, e) ==
    LET b == read_bytes(s.data, cursor, packet.size)
    IN  IF ~b.ok THEN PushAndBreak(s, b.cursor, [packet EXCEPT !.error = Some(b.error)])
        ELSE LET d == decodeNetworkPacket(packet.type, b.value, e)
             IN  PushAndContinue(s, b.cursor,
                    [packet EXCEPT
                        !.rawDataSample =
                            Some(toHex(SubSeq(b.value, 1, Min(SampleLen, Len(b.value))))),
                        !.decodeSuccess = Some(d.success),
                        !.decodedData = d.data,
                        !.decodeError = d.error,
                        !.success = TRUE,
                        !.remainingBytesAfter = remaining_bytes(s.data, cursor)])

\* Mutant: a payload that fails to decode ends the walk with an error.
ReadPayload_DecodeAborts(s, cursor, packet, e) ==
    LET b == read_bytes(s.data, cursor, packet.size)
    IN  IF ~b.ok THEN PushAndBreak(s, b.cursor, [packet EXCEPT !.error = Some(b.error)])
        ELSE LET d == decodeNetworkPacket(packet.type, b.value, e)
                 read == [packet EXCEPT
                            !.rawDataSample =
                                Some(toHex(SubSeq(b.value, 1, Min(SampleLen, Len(b.value)))))]
             IN  IF ~d.success
                 THEN PushAndBreak(s, b.cursor, [read EXCEPT !.error = d.error])
                 ELSE PushAndContinue(s, b.cursor,
                        [read EXCEPT
                            !.decodeSuccess = Some(d.success),
                            !.decodedData = d.data,
                            !.decodeError = d.error,
                            !.success = TRUE,
                            !.remainingBytesAfter = remaining_bytes(s.data, b.cursor)])

\* Lines 171-188: the payload is read and decoded, the packet recorded.
ReadPayload(s, cursor, packet, e) ==
    LET b == read_bytes(s.data, cursor, packet.size)
    IN  IF ~b.ok THEN PushAndBreak(s, b.cursor, [packet EXCEPT !.error = Some(b.error)])
        ELSE LET d == decodeNetworkPacket(packet.type, b.value, e)
             IN  PushAndContinue(s, b.cursor,
                    [packet EXCEPT
                        !.rawDataSample =
                            Some(toHex(SubSeq(b.value, 1, Min(SampleLen, Len(b.value))))),
                        !.decodeSuccess = Some(d.success),
                        !.decodedData = d.data,
                        !.decodeError = d.error,
                        !.success = TRUE,
                        !.remainingBytesAfter = remaining_bytes(s.data, b.cursor)])

\* Mutant: a size field that cannot be read is recorded but the walk goes on.
ReadSize_ThrowContinues(s, cursor, packet, e) ==
    LET z == read_uvarint32(s.data, cursor)
    IN  IF ~z.ok
        THEN PushAndContinue(s, z.cursor + 1, [packet EXCEPT !.error = Some(z.error)])
        ELSE LET sized == [packet EXCEPT !.size = z.value]
                 left == remaining_bytes(s.data, z.cursor)
             IN  IF z.value > left
                 THEN PushAndBreak(s, z.cursor,
                        [sized EXCEPT !.error = Some(SizeExceeds(z.value, left))])
                 ELSE ReadPayload(s, z.cursor, sized, e)

\* Mutant: a size beyond the bytes left is recorded but the walk goes on.
ReadSize_NoBreak(s, cursor, packet, e) ==
    LET z == read_uvarint32(s.data, cursor)
    IN  IF ~z.ok THEN PushAndBreak(s, z.cursor, [packet EXCEPT !.error = Some(z.error)])
        ELSE LET sized == [packet EXCEPT !.size = z.value]
                 left == remaining_bytes(s.data, z.cursor)
             IN  IF z.value > left
                 THEN PushAndContinue(s, z.cursor,
                        [sized EXCEPT !.error = Some(SizeExceeds(z.value, left))])
                 ELSE ReadPayload(s, z.cursor, sized, e)

\* Lines 161-169: the size is read and checked against the bytes left.
ReadSize(s, cursor, packet, e) ==
    LET z == read_uvarint32(s.data, cursor)
    IN  IF ~z.ok THEN PushAndBreak(s, z.cursor, [packet EXCEPT !.error = Some(z.error)])
        ELSE LET sized == [packet EXCEPT !.size = z.value]
                 left == remaining_bytes(s.data, z.cursor)
             IN  IF z.value > left
                 THEN PushAndBreak(s, z.cursor,
                        [sized EXCEPT !.error = Some(SizeExceeds(z.value, left))])
                 ELSE ReadPayload(s, z.cursor, sized, e)

\* Mutant: the NOP is recorded without its type field being consumed.
RecordNop_NoAdvance(s, cursor, packet) ==
    PushAndContinue(s, s.cursor,
        [packet EXCEPT !.success = TRUE,
                       !.remainingBytesAfter = remaining_bytes(s.data, cursor)])

\* Mutant: the NOP branch forgets packetIndex++.
RecordNop_NoIncrement(s, cursor, packet) ==
    [s EXCEPT !.cursor = cursor,
              !.packets = Append(@, [packet EXCEPT
                    !.success = TRUE,
                    !.remainingBytesAfter = remaining_bytes(s.data, cursor)])]

\* Lines 152-159: a NOP has no size and no payload.
RecordNop(s, cursor, packet) ==
    PushAndContinue(s, cursor,
        [packet EXCEPT !.success = TRUE,
                       !.remainingBytesAfter = remaining_bytes(s.data, cursor)])

\* Mutant: a NOP ends the walk (break instead of continue).
WalkIteration_NopBreaks(s, e) ==
    LET packet == NewPacket(s.packetIndex, s.cursor)
    IN  IF remaining_bits(s.data, s.cursor) < TypeBits
        THEN PushAndBreak(s, s.cursor,
                [packet EXCEPT
                    !.error = Some(NotEnoughBits(remaining_bits(s.data, s.cursor)))])
        ELSE LET t == read_uvarbit(s.data, s.cursor)
             IN  IF ~t.ok
                 THEN PushAndBreak(s, t.cursor, [packet EXCEPT !.error = Some(t.error)])
                 ELSE LET typed == [packet EXCEPT
                                      !.type = t.value,
                                      !.typeName = resolveMessageTypeName(t.value)]
                      IN  IF t.value = net_NOP
                          THEN PushAndBreak(s, t.cursor,
                                 [typed EXCEPT
                                    !.success = TRUE,
                                    !.remainingBytesAfter =
                                        remaining_bytes(s.data, t.cursor)])
                          ELSE ReadSize(s, t.cursor, typed, e)

\* Lines 127-198: one iteration of the while loop.
WalkIteration(s, e) ==
    LET packet == NewPacket(s.packetIndex, s.cursor)
    IN  IF remaining_bits(s.data, s.cursor) < TypeBits
        THEN PushAndBreak(s, s.cursor,
                [packet EXCEPT
                    !.error = Some(NotEnoughBits(remaining_bits(s.data, s.cursor)))])
        ELSE LET t == read_uvarbit(s.data, s.cursor)
             IN  IF ~t.ok
                 THEN PushAndBreak(s, t.cursor, [packet EXCEPT !.error = Some(t.error)])
                 ELSE LET typed == [packet EXCEPT
                                      !.type = t.value,
                                      !.typeName = resolveMessageTypeName(t.value)]
                      IN  IF t.value = net_NOP THEN RecordNop(s, t.cursor, typed)
                          ELSE ReadSize(s, t.cursor, typed, e)

\* Mutant: the loop goes on while any bit is left.
LoopGuard_AnyBits(s) == remaining_bits(s.data, s.cursor) > 0

\* Line 126: the loop condition.
LoopGuard(s) == remaining_bytes(s.data, s.cursor) > 0

RECURSIVE RunWalk(_, _)
RunWalk(s, e) ==
    IF s.pc = "begin" THEN RunWalk(WalkStart(s), e)
    ELSE IF s.pc = "loop"
         THEN IF LoopGuard(s) THEN RunWalk(WalkIteration(s, e), e)
              ELSE [s EXCEPT !.pc = "returned"]
         ELSE s

analyzeNetworkPackets(data, command, e) == RunWalk(NewWalker(data, command), e)

(***************************************************************************)
(* The packet walker alone, one action per step of analyzeNetworkPackets.  *)
(***************************************************************************)
WalkBytes == {0, 1, 2, 4, 16, 32, 68}
WalkCommands == {DEM_Packet, DEM_SpawnGroups}

\* Mutant: the summary is kept in the analyzer and carried into the next call.
EmptySummary_Carried ==
    IF pc = "returned" THEN summary
    ELSE [networkPacketChunks |-> 0, protobufChunks |-> 0, unknownChunks |-> 0,
          totalNetworkPackets |-> 0, errors |-> 0, packetErrors |-> 0,
          packetDecodeErrors |-> 0]

EmptySummary ==
    [networkPacketChunks |-> 0, protobufChunks |-> 0, unknownChunks |-> 0,
     totalNetworkPackets |-> 0, errors |-> 0, packetErrors |-> 0,
     packetDecodeErrors |-> 0]

Infinity == MaxTime + 1000

InitialPerformance ==
    [averageChunkParseTimeMs |-> [num |-> 0, den |-> 1],
     slowestChunk |-> [index |-> 0, timeMs |-> 0],
     fastestChunk |-> [index |-> 0, timeMs |-> Infinity]]

WalkInit ==
    /\ env \in Envs
    /\ \E data \in SeqsUpTo(WalkBytes, MaxWalkLen), command \in WalkCommands :
           w = NewWalker(data, command)
    /\ totalChunks = 0
    /\ chunks = <<>>
    /\ summary = EmptySummary
    /\ performance = InitialPerformance
    /\ pc = "walk"
    /\ input = <<>>
    /\ previous = None
    /\ call = NoCall

WalkBegin ==
    /\ w.pc = "begin"
    /\ w' = WalkStart(w)
    /\ UNCHANGED <<env, totalChunks, chunks, summary, performance, pc, input, previous, call>>

WalkPacket ==
    /\ w.pc = "loop"
    /\ LoopGuard(w)
    /\ w' = WalkIteration(w, env)
    /\ UNCHANGED <<env, totalChunks, chunks, summary, performance, pc, input, previous, call>>

WalkReturn ==
    /\ w.pc = "loop"
    /\ ~LoopGuard(w)
    /\ w' = [w EXCEPT !.pc = "returned"]
    /\ UNCHANGED <<env, totalChunks, chunks, summary, performance, pc, input, previous, call>>

WalkNext == WalkBegin \/ WalkPacket \/ WalkReturn

SpecWalk == WalkInit /\ [][WalkNext]_vars

(***************************************************************************)
(* DemoAnalyzer.analyzeProtobuf: one decode by Registry.DemoCommand.        *)
(***************************************************************************)
\* Registry.DemoCommand.decode(command, data): the message, or a thrown error.
DemoCommandDecode(command, data, e) ==
    IF command \in e.throwCommands
    THEN [success |-> FALSE, data |-> None, error |-> Some(e.message)]
    ELSE [success |-> TRUE,
          data |-> Some([registry |-> "DemoCommand", type |-> command, bytes |-> data]),
          error |-> None]

\* The result {success, data, error} of the call; invoked lists the registries
\* whose decode the call ran.
analyzeProtobuf(command, data, e) ==
    LET r == DemoCommandDecode(command, data, e)
    IN  [success |-> r.success, data |-> r.data, error |-> r.error,
         invoked |-> <<"DemoCommand">>]

(***************************************************************************)
(* DemoAnalyzer.analyzeChunk.  A chunk is [command, data]; data is None    *)
(* when chunk.data is undefined.  elapsed is the measured parse time.  The *)
(* fields size, isCompressed and rawCommand, copied from the chunk header, *)
(* are not part of the model.  thrown is not a field of the report: it is  *)
(* None when analyzeChunk returns the report and Some(message) when an     *)
(* exception leaves analyzeChunk instead.                                  *)
(***************************************************************************)
EDemoCommands ==
    (DEM_FileHeader :> "DEM_FileHeader" @@ DEM_Packet :> "DEM_Packet"
     @@ DEM_SignonPacket :> "DEM_SignonPacket" @@ DEM_FullPacket :> "DEM_FullPacket"
     @@ DEM_SpawnGroups :> "DEM_SpawnGroups")

networkPacketChunks == <<DEM_Packet, DEM_SignonPacket, DEM_FullPacket, DEM_SpawnGroups>>

Includes(list, x) == \E i \in 1..Len(list) : list[i] = x

NoDataAvailable == "No data available"

\* data.slice(0, n)
SliceFirst(data, n) == SubSeq(data, 1, Min(n, Len(data)))
\* Mutant: data.slice(n) instead of data.slice(-n).
SliceLast_FromStart(data, n) == SubSeq(data, Min(n, Len(data)) + 1, Len(data))
\* data.slice(-n)
SliceLast(data, n) == SubSeq(data, Len(data) - Min(n, Len(data)) + 1, Len(data))

\* Mutant: the report index counted from 1.
NewChunkAnalysis_OneBased(chunk, index) ==
    [index |-> index + 1, command |-> chunk.command,
     commandName |-> IF chunk.command \in DOMAIN EDemoCommands
                     THEN EDemoCommands[chunk.command] ELSE "unknown",
     analysisType |-> "unknown", success |-> FALSE, error |-> None, parseTimeMs |-> 0,
     networkPackets |-> None, protobufData |-> None, rawDataSample |-> None,
     thrown |-> None]

NewChunkAnalysis(chunk, index) ==
    [index |-> index, command |-> chunk.command,
     commandName |-> IF chunk.command \in DOMAIN EDemoCommands
                     THEN EDemoCommands[chunk.command] ELSE "unknown",
     analysisType |-> "unknown", success |-> FALSE, error |-> None, parseTimeMs |-> 0,
     networkPackets |-> None, protobufData |-> None, rawDataSample |-> None,
     thrown |-> None]

\* Mutant: the chunk succeeds only when its last packet did.
ChunkOfPackets_LastSucceeded(analysis, chunk, e) ==
    LET r == analyzeNetworkPackets(chunk.data[1], chunk.command, e)
        typed == [analysis EXCEPT !.analysisType = "network_packets"]
    IN  IF r.pc = "thrown" THEN [typed EXCEPT !.error = r.error]
        ELSE [typed EXCEPT !.networkPackets = Some(r.packets),
                           !.success = Len(r.packets) > 0
                                       /\ r.packets[Len(r.packets)].success]

\* Mutant: the chunk succeeds whenever the walk returned (length >= 0).
ChunkOfPackets_AlwaysSucceeds(analysis, chunk, e) ==
    LET r == analyzeNetworkPackets(chunk.data[1], chunk.command, e)
        typed == [analysis EXCEPT !.analysisType = "network_packets"]
    IN  IF r.pc = "thrown" THEN [typed EXCEPT !.error = r.error]
        ELSE [typed EXCEPT !.networkPackets = Some(r.packets), !.success = TRUE]

\* Mutant: the analysis type is set once the walk has returned.
ChunkOfPackets_TypedAfterWalk(analysis, chunk, e) ==
    LET r == analyzeNetworkPackets(chunk.data[1], chunk.command, e)
    IN  IF r.pc = "thrown" THEN [analysis EXCEPT !.error = r.error]
        ELSE [analysis EXCEPT !.analysisType = "network_packets",
                              !.networkPackets = Some(r.packets),
                              !.success = Len(r.packets) > 0]

\* Mutant: an exception of the walk is not caught.
ChunkOfPackets_NoCatch(analysis, chunk, e) ==
    LET r == analyzeNetworkPackets(chunk.data[1], chunk.command, e)
        typed == [analysis EXCEPT !.analysisType = "network_packets"]
    IN  IF r.pc = "thrown" THEN [typed EXCEPT !.thrown = r.error]
        ELSE [typed EXCEPT !.networkPackets = Some(r.packets),
                           !.success = Len(r.packets) > 0]

\* Lines 262-269: the chunk carries network packets.
ChunkOfPackets(analysis, chunk, e) ==
    LET r == analyzeNetworkPackets(chunk.data[1], chunk.command, e)
        typed == [analysis EXCEPT !.analysisType = "network_packets"]
    IN  IF r.pc = "thrown" THEN [typed EXCEPT !.error = r.error]
        ELSE [typed EXCEPT !.networkPackets = Some(r.packets),
                           !.success = Len(r.packets) > 0]

\* Mutant: a command without a name keeps the analysis type "unknown".
ChunkOfProtobuf_UnnamedUnknown(analysis, chunk, e) ==
    LET protobufResult == analyzeProtobuf(chunk.command, chunk.data[1], e)
    IN  [analysis EXCEPT !.analysisType = IF chunk.command \in DOMAIN EDemoCommands
                                          THEN "protobuf" ELSE "unknown",
                         !.success = protobufResult.success,
                         !.protobufData = protobufResult.data,
                         !.error = protobufResult.error]

\* Mutant: the chunk is decoded through the packet-type registries.
ChunkOfProtobuf_ThroughRegistries(analysis, chunk, e) ==
    LET protobufResult == decodeNetworkPacket(chunk.command, chunk.data[1], e)
    IN  [analysis EXCEPT !.analysisType = "protobuf",
                         !.success = protobufResult.success,
                         !.protobufData = protobufResult.data,
                         !.error = protobufResult.error]

\* Lines 270-276: any other chunk is decoded as one message.
ChunkOfProtobuf(analysis, chunk, e) ==
    LET protobufResult == analyzeProtobuf(chunk.command, chunk.data[1], e)
    IN  [analysis EXCEPT !.analysisType = "protobuf",
                         !.success = protobufResult.success,
                         !.protobufData = protobufResult.data,
                         !.error = protobufResult.error]

\* Mutant: a payload of 0 bytes is taken for a missing one.
analyzeChunk_EmptyIsNoData(chunk, index, e, elapsed) ==
    LET analysis == NewChunkAnalysis(chunk, index)
    IN  IF chunk.data = None \/ chunk.data = Some(<<>>)
        THEN [analysis EXCEPT !.error = Some(NoDataAvailable)]
        ELSE LET data == chunk.data[1]
                 sampled == [analysis EXCEPT
                               !.rawDataSample =
                                   Some([first20Bytes |-> toHex(SliceFirst(data, 20)),
                                         last10Bytes |-> toHex(SliceLast(data, 10))])]
                 done == IF Includes(networkPacketChunks, chunk.command)
                         THEN ChunkOfPackets(sampled, chunk, e)
                         ELSE ChunkOfProtobuf(sampled, chunk, e)
             IN  [done EXCEPT !.parseTimeMs = elapsed]

analyzeChunk(chunk, index, e, elapsed) ==
    LET analysis == NewChunkAnalysis(chunk, index)
    IN  IF chunk.data = None THEN [analysis EXCEPT !.error = Some(NoDataAvailable)]
        ELSE LET data == chunk.data[1]
                 sampled == [analysis EXCEPT
                               !.rawDataSample =
                                   Some([first20Bytes |-> toHex(SliceFirst(data, 20)),
                                         last10Bytes |-> toHex(SliceLast(data, 10))])]
                 done == IF Includes(networkPacketChunks, chunk.command)
                         THEN ChunkOfPackets(sampled, chunk, e)
                         ELSE ChunkOfProtobuf(sampled, chunk, e)
             IN  [done EXCEPT !.parseTimeMs = elapsed]

(***************************************************************************)
(* DemoAnalyzer.analyzeFragment.                                           *)
(***************************************************************************)
\* Mutant: the negation of packet.success is lost.
IsPacketError_NoNegation(packet) == packet.success \/ Truthy(packet.error)
\* Mutant: the test of packet.decodeError is lost.
IsPacketDecodeError_NoMessage(packet) == Falsy(packet.decodeSuccess)

\* Line 324
IsPacketError(packet) == ~packet.success \/ Truthy(packet.error)
\* Line 328
IsPacketDecodeError(packet) == Falsy(packet.decodeSuccess) /\ Truthy(packet.decodeError)

RECURSIVE PacketErrorsFrom(_, _)
\* What lines 322-331 add to packetErrors for the packets from position i on.
PacketErrorsFrom(packets, i) ==
    IF i > Len(packets) THEN 0
    ELSE (IF IsPacketError(packets[i]) THEN 1 ELSE 0) + PacketErrorsFrom(packets, i + 1)

RECURSIVE PacketDecodeErrorsFrom(_, _)
\* What lines 322-331 add to packetDecodeErrors for the packets from position i on.
PacketDecodeErrorsFrom(packets, i) ==
    IF i > Len(packets) THEN 0
    ELSE (IF IsPacketDecodeError(packets[i]) THEN 1 ELSE 0)
         + PacketDecodeErrorsFrom(packets, i + 1)

\* Mutant: chunk errors are counted by the error message, not by success.
UpdateSummary_ByMessage(s, chunkAnalysis) ==
    LET byType ==
            IF chunkAnalysis.analysisType = "network_packets"
            THEN LET counted == [s EXCEPT !.networkPacketChunks = @ + 1]
                 IN  IF chunkAnalysis.networkPackets # None
                     THEN LET packets == chunkAnalysis.networkPackets[1]
                          IN  [counted EXCEPT
                                 !.totalNetworkPackets = @ + Len(packets),
                                 !.packetErrors = @ + PacketErrorsFrom(packets, 1),
                                 !.packetDecodeErrors =
                                     @ + PacketDecodeErrorsFrom(packets, 1)]
                     ELSE counted
            ELSE IF chunkAnalysis.analysisType = "protobuf"
                 THEN [s EXCEPT !.protobufChunks = @ + 1]
                 ELSE [s EXCEPT !.unknownChunks = @ + 1]
    IN  IF Truthy(chunkAnalysis.error) THEN [byType EXCEPT !.errors = @ + 1] ELSE byType

\* Mutant: a network chunk is counted only when it has a packet list.
UpdateSummary_ListedOnly(s, chunkAnalysis) ==
    LET byType ==
            IF chunkAnalysis.analysisType = "network_packets"
            THEN IF chunkAnalysis.networkPackets # None
                 THEN LET packets == chunkAnalysis.networkPackets[1]
                      IN  [s EXCEPT
                             !.networkPacketChunks = @ + 1,
                             !.totalNetworkPackets = @ + Len(packets),
                             !.packetErrors = @ + PacketErrorsFrom(packets, 1),
                             !.packetDecodeErrors =
                                 @ + PacketDecodeErrorsFrom(packets, 1)]
                 ELSE s
            ELSE IF chunkAnalysis.analysisType = "protobuf"
                 THEN [s EXCEPT !.protobufChunks = @ + 1]
                 ELSE [s EXCEPT !.unknownChunks = @ + 1]
    IN  IF ~chunkAnalysis.success THEN [byType EXCEPT !.errors = @ + 1] ELSE byType

\* Lines 315-342: the summary after one more chunk report.
UpdateSummary(s, chunkAnalysis) ==
    LET byType ==
            IF chunkAnalysis.analysisType = "network_packets"
            THEN LET counted == [s EXCEPT !.networkPacketChunks = @ + 1]
                 IN  IF chunkAnalysis.networkPackets # None
                     THEN LET packets == chunkAnalysis.networkPackets[1]
                          IN  [counted EXCEPT
                                 !.totalNetworkPackets = @ + Len(packets),
                                 !.packetErrors = @ + PacketErrorsFrom(packets, 1),
                                 !.packetDecodeErrors =
                                     @ + PacketDecodeErrorsFrom(packets, 1)]
                     ELSE counted
            ELSE IF chunkAnalysis.analysisType = "protobuf"
                 THEN [s EXCEPT !.protobufChunks = @ + 1]
                 ELSE [s EXCEPT !.unknownChunks = @ + 1]
    IN  IF ~chunkAnalysis.success THEN [byType EXCEPT !.errors = @ + 1] ELSE byType

RECURSIVE MaxTimeOf(_, _)
\* Math.max over the parse times of the reports from position i on.
MaxTimeOf(reports, i) ==
    IF i = Len(reports) THEN reports[i].parseTimeMs
    ELSE LET rest == MaxTimeOf(reports, i + 1)
         IN  IF reports[i].parseTimeMs > rest THEN reports[i].parseTimeMs ELSE rest

RECURSIVE MinTimeOf(_, _)
MinTimeOf(reports, i) ==
    IF i = Len(reports) THEN reports[i].parseTimeMs
    ELSE LET rest == MinTimeOf(reports, i + 1)
         IN  IF reports[i].parseTimeMs < rest THEN reports[i].parseTimeMs ELSE rest

RECURSIVE SumTimeOf(_, _)
SumTimeOf(reports, i) ==
    IF i > Len(reports) THEN 0 ELSE reports[i].parseTimeMs + SumTimeOf(reports, i + 1)

RECURSIVE FindLastIndexOfTime(_, _, _)
\* Mutant: findLastIndex instead of findIndex.
FindLastIndexOfTime(reports, t, i) ==
    IF i > Len(reports) THEN -1
    ELSE LET later == FindLastIndexOfTime(reports, t, i + 1)
         IN  IF later # -1 THEN later
             ELSE IF reports[i].parseTimeMs = t THEN i - 1 ELSE -1

RECURSIVE FindIndexOfTime(_, _, _)
\* chunks.findIndex((c) => c.parseTimeMs === t), searching from position i; -1 if none.
FindIndexOfTime(reports, t, i) ==
    IF i > Len(reports) THEN -1
    ELSE IF reports[i].parseTimeMs = t THEN i - 1
         ELSE FindIndexOfTime(reports, t, i + 1)

\* Lines 349-366.  The average is kept as the fraction num / den.
ComputePerformance(p, reports) ==
    IF Len(reports) > 0
    THEN LET slowestTime == MaxTimeOf(reports, 1)
             fastestTime == MinTimeOf(reports, 1)
         IN  [averageChunkParseTimeMs |->
                  [num |-> SumTimeOf(reports, 1), den |-> Len(reports)],
              slowestChunk |-> [index |-> FindIndexOfTime(reports, slowestTime, 1),
                                timeMs |-> slowestTime],
              fastestChunk |-> [index |-> FindIndexOfTime(reports, fastestTime, 1),
                                timeMs |-> fastestTime]]
    ELSE p

\* The chunks a fragment is made of: a command of each kind, with no payload,
\* an empty payload, a payload whose first packet fails (<<1>>), one with a NOP
\* and then a truncated packet (<<0, 1>>), and one packet of size 0 (<<1, 0>>).
FragPayloads == {<<>>, <<1>>, <<0, 1>>, <<1, 0>>}
FragCommands == {DEM_FileHeader, DEM_Packet, DEM_SpawnGroups, DEM_Unnamed}
ChunkInputs ==
    [command : FragCommands, data : {None} \cup {Some(d) : d \in FragPayloads}]

Init ==
    /\ env \in Envs
    /\ w = IdleWalker
    /\ totalChunks \in 0..MaxChunks
    /\ chunks = <<>>
    /\ summary = EmptySummary
    /\ performance = InitialPerformance
    /\ pc = "chunks"
    /\ input = <<>>
    /\ previous = None
    /\ call = NoCall

\* Lines 311-343: the forEach callback for one chunk; elapsed is the time the
\* chunk's analysis is measured to take (a chunk without data returns before
\* the time is taken).  Nothing between analyzeChunk and the caller of
\* analyzeFragment catches: an exception that leaves analyzeChunk leaves
\* analyzeFragment.
Callback(chunk, elapsed) ==
    LET chunkAnalysis ==
            analyzeChunk(chunk, Len(chunks), env,
                         IF chunk.data = None THEN 0 ELSE elapsed)
    IN  IF chunkAnalysis.thrown # None
        THEN /\ pc' = "thrown"
             /\ UNCHANGED <<chunks, summary>>
        ELSE /\ chunks' = Append(chunks, chunkAnalysis)
             /\ summary' = UpdateSummary(summary, chunkAnalysis)
             /\ pc' = pc

\* The callback for the next chunk of a fragment that is any sequence of chunks.
AnalyzeNextChunk ==
    /\ pc = "chunks"
    /\ Len(chunks) < totalChunks
    /\ \E chunk \in ChunkInputs, elapsed \in 0..MaxTime :
          /\ input' = Append(input, chunk)
          /\ Callback(chunk, elapsed)
    /\ UNCHANGED <<env, w, totalChunks, performance, previous, call>>

\* Lines 345-368: the performance metrics; the report is returned.
ReturnAnalysis ==
    /\ pc = "chunks"
    /\ Len(chunks) = totalChunks
    /\ performance' = ComputePerformance(performance, chunks)
    /\ pc' = "returned"
    /\ UNCHANGED <<env, w, totalChunks, chunks, summary, input, previous, call>>

Next == AnalyzeNextChunk \/ ReturnAnalysis

Spec == Init /\ [][Next]_vars

(***************************************************************************)
(* analyzeFragment called twice on the same buffer: the same chunks and    *)
(* the same decoders, the measured times free to differ.                   *)
(***************************************************************************)
TwiceChunks ==
    { [command |-> DEM_Packet, data |-> Some(<<0, 1>>)],
      [command |-> DEM_Packet, data |-> Some(<<1, 0>>)],
      [command |-> DEM_SpawnGroups, data |-> Some(<<>>)],
      [command |-> DEM_FileHeader, data |-> None],
      [command |-> DEM_FileHeader, data |-> Some(<<1>>)] }

TwiceInit ==
    /\ pc = "chunks"
    /\ env \in Envs
    /\ w = IdleWalker
    /\ input \in SeqsUpTo(TwiceChunks, MaxChunks)
    /\ totalChunks = Len(input)
    /\ chunks = <<>>
    /\ summary = EmptySummary
    /\ performance = InitialPerformance
    /\ previous = None
    /\ call = NoCall

\* The callback for the next chunk of the given fragment.
AnalyzeInputChunk ==
    /\ pc = "chunks"
    /\ Len(chunks) < totalChunks
    /\ \E elapsed \in 0..MaxTime : Callback(input[Len(chunks) + 1], elapsed)
    /\ UNCHANGED <<env, w, totalChunks, performance, input, previous, call>>

\* Lines 284-309 of the second call: the first report is with the caller, a
\* new report is started for the same buffer.
AnalyzeAgain ==
    /\ pc = "returned"
    /\ previous = None
    /\ previous' = Some([totalChunks |-> totalChunks, chunks |-> chunks,
                         summary |-> summary, performance |-> performance])
    /\ totalChunks' = Len(input)
    /\ chunks' = <<>>
    /\ summary' = EmptySummary
    /\ performance' = InitialPerformance
    /\ pc' = "chunks"
    /\ UNCHANGED <<env, w, input, call>>

TwiceNext == AnalyzeInputChunk \/ ReturnAnalysis \/ AnalyzeAgain

SpecTwice == TwiceInit /\ [][TwiceNext]_vars

(***************************************************************************)
(* analyzeChunk as a function of its chunk: a fragment of one chunk, of    *)
(* any of the commands the classification tells apart.                     *)
(***************************************************************************)
OneChunkCommands ==
    {DEM_FileHeader, DEM_Packet, DEM_SignonPacket, DEM_FullPacket, DEM_SpawnGroups,
     DEM_Unnamed}
OneChunkInputs ==
    [command : OneChunkCommands, data : {None} \cup {Some(d) : d \in FragPayloads}]

OneChunkInit ==
    /\ pc = "chunks"
    /\ env \in Envs
    /\ w = IdleWalker
    /\ input \in {<<chunk>> : chunk \in OneChunkInputs}
    /\ totalChunks = Len(input)
    /\ chunks = <<>>
    /\ summary = EmptySummary
    /\ performance = InitialPerformance
    /\ previous = None
    /\ call = NoCall

OneChunkNext == AnalyzeInputChunk \/ ReturnAnalysis

SpecOneChunk == OneChunkInit /\ [][OneChunkNext]_vars

(***************************************************************************)
(* analyzeChunk as a function of its payload: a fragment of one chunk,     *)
(* without a payload or with one of any length around the sample sizes.    *)
(***************************************************************************)
SampleSteps == {1, 7, 37, 66}
SamplePayload(n, step) == [k \in 1..n |-> (k * step) % 256]
SampleCommands == {DEM_FileHeader, DEM_Packet}
SampleInputs ==
    [command : SampleCommands,
     data : {None} \cup {Some(SamplePayload(n, step)) :
                            n \in 0..MaxSample, step \in SampleSteps}]

SampleInit ==
    /\ pc = "chunks"
    /\ env \in Envs
    /\ w = IdleWalker
    /\ input \in {<<chunk>> : chunk \in SampleInputs}
    /\ totalChunks = Len(input)
    /\ chunks = <<>>
    /\ summary = EmptySummary
    /\ performance = InitialPerformance
    /\ previous = None
    /\ call = NoCall

SpecSample == SampleInit /\ [][OneChunkNext]_vars

(***************************************************************************)
(* resolveMessageTypeName and decodeNetworkPacket as functions of their    *)
(* arguments: one call of either with a type code and a payload.           *)
(***************************************************************************)
CallPayloads == {<<>>, <<1>>}

RegistryInit ==
    /\ pc = "call"
    /\ env \in Envs
    /\ call \in {[op |-> "none", type |-> type, data |-> data, result |-> None] :
                    type \in 0..MaxType, data \in CallPayloads}
    /\ w = IdleWalker
    /\ input = <<>>
    /\ totalChunks = 0
    /\ chunks = <<>>
    /\ summary = EmptySummary
    /\ performance = InitialPerformance
    /\ previous = None

CallResolve ==
    /\ pc = "call"
    /\ call.op = "none"
    /\ call' = [call EXCEPT !.op = "resolveMessageTypeName",
                            !.result = Some(resolveMessageTypeName(call.type))]
    /\ UNCHANGED <<env, w, totalChunks, chunks, summary, performance, pc, input, previous>>

CallDecode ==
    /\ pc = "call"
    /\ call.op = "none"
    /\ call' = [call EXCEPT !.op = "decodeNetworkPacket",
                            !.result = Some(decodeNetworkPacket(call.type, call.data, env))]
    /\ UNCHANGED <<env, w, totalChunks, chunks, summary, performance, pc, input, previous>>

RegistryNext == CallResolve \/ CallDecode

SpecRegistry == RegistryInit /\ [][RegistryNext]_vars


(***************************************************************************)
(* Properties.  Those about the report are checked under Spec, those about *)
(* one walk of the packet walker under SpecWalk.                           *)
(***************************************************************************)
Returned == pc = "returned"

\* The packet lists of the report: the pairs <<chunk position, packet position>>.
PacketPlaces ==
    UNION {IF chunks[i].networkPackets = None THEN {}
           ELSE {<<i, j>> : j \in 1..Len(chunks[i].networkPackets[1])} :
           i \in 1..Len(chunks)}
PacketAt(place) == chunks[place[1]].networkPackets[1][place[2]]

\* The packet of the stream that starts where the record says: its type field
\* and, for a type other than NOP, its size field, as the cursor reads them.
TypeRead(packet) == read_uvarbit(w.data, packet.cursor)
SizeRead(packet) == read_uvarint32(w.data, TypeRead(packet).cursor)
\* The cursor after the record at position i: where the next record starts,
\* or where the walker stands.
CursorAfter(i) == IF i < Len(w.packets) THEN w.packets[i + 1].cursor ELSE w.cursor

\* C1: after analyzeFragment returns, chunks.length equals totalChunks and the
\* report at position i has index i, so every index in [0, totalChunks) appears
\* exactly once, in ascending order.
C1_ChunkIndexes ==
    Returned =>
        /\ Len(chunks) = totalChunks
        /\ \A i \in 1..Len(chunks) : chunks[i].index = i - 1
        /\ \A n \in 0..(totalChunks - 1) :
              Cardinality({i \in 1..Len(chunks) : chunks[i].index = n}) = 1
C1_Witness ==
    Returned /\ totalChunks = MaxChunks /\ Len(chunks) = MaxChunks
    /\ chunks[MaxChunks].index = MaxChunks - 1

\* C2: the packet list of a walk has packetIndex 0, 1, 2, ... with no gaps, also
\* across NOP packets and a final failed packet, and the recorded cursor does not
\* decrease from one packet to the next.
C2_PacketIndexes ==
    \A i \in 1..Len(w.packets) :
        /\ w.packets[i].packetIndex = i - 1
        /\ i > 1 => w.packets[i - 1].cursor <= w.packets[i].cursor
C2_Witness ==
    /\ w.pc = "returned"
    /\ Len(w.packets) = 3
    /\ w.packets[1].type = net_NOP /\ w.packets[1].success
    /\ ~w.packets[3].success
    /\ w.packets[3].packetIndex = 2

\* C3: a chunk of network packets with a payload succeeds exactly when the walk
\* recorded at least one packet, whether or not the last one is a failure; a
\* payload of zero packets gives success = false.
C3_SuccessIsNonEmpty ==
    \A i \in 1..Len(chunks) :
        chunks[i].analysisType = "network_packets" =>
            (chunks[i].success <=>
                /\ chunks[i].networkPackets # None
                /\ Len(chunks[i].networkPackets[1]) > 0)
C3_Witness ==
    \E i, j \in 1..Len(chunks) :
        /\ chunks[i].networkPackets = Some(<<>>) /\ ~chunks[i].success
        /\ chunks[j].success
        /\ chunks[j].networkPackets # None
        /\ LET packets == chunks[j].networkPackets[1]
           IN  Len(packets) > 1 /\ ~packets[Len(packets)].success

\* C4 as stated: a chunk whose very first packet fails structurally has exactly
\* one packet record, with a non-empty error, and chunk success = false, while a
\* chunk that parsed several packets and then failed has success = true.
C4_FirstFailureFailsChunk ==
    \A i \in 1..Len(chunks) :
        chunks[i].networkPackets # None =>
            LET packets == chunks[i].networkPackets[1]
            IN  /\ (Len(packets) > 0 /\ ~packets[1].success) =>
                       /\ Len(packets) = 1
                       /\ Truthy(packets[1].error)
                       /\ ~chunks[i].success
                /\ (Len(packets) > 1 /\ ~packets[Len(packets)].success) =>
                       chunks[i].success
\* C4 as amended: a chunk whose very first packet fails structurally has exactly
\* one packet record, with a non-empty error, and chunk success = true, because
\* its list is not empty; so has a chunk that parsed several packets first.
C4_FirstFailureStillSucceeds ==
    \A i \in 1..Len(chunks) :
        chunks[i].networkPackets # None =>
            LET packets == chunks[i].networkPackets[1]
            IN  /\ (Len(packets) > 0 /\ ~packets[1].success) =>
                       /\ Len(packets) = 1
                       /\ Truthy(packets[1].error)
                       /\ chunks[i].success
                /\ (Len(packets) > 1 /\ ~packets[Len(packets)].success) =>
                       chunks[i].success
C4_Witness ==
    \E i, j \in 1..Len(chunks) :
        /\ chunks[i].rawDataSample # None
        /\ chunks[i].rawDataSample[1].first20Bytes = "01"
        /\ chunks[i].networkPackets # None
        /\ Len(chunks[i].networkPackets[1]) = 1
        /\ ~chunks[i].networkPackets[1][1].success
        /\ chunks[i].success
        /\ chunks[j].networkPackets # None
        /\ Len(chunks[j].networkPackets[1]) > 1
        /\ ~chunks[j].networkPackets[1][Len(chunks[j].networkPackets[1])].success
        /\ chunks[j].success

\* C5: a packet whose type is the NOP code is recorded with size = 0 and
\* success = true, no size field and no payload are consumed for it (the cursor
\* after it is the cursor after its type field), and it does not end the walk:
\* the walk returns after it only when no byte is left, and a packet after it
\* has the next packetIndex.
C5_NopContinues ==
    \A i \in 1..Len(w.packets) :
        LET packet == w.packets[i]
            t == TypeRead(packet)
        IN  (t.ok /\ t.value = net_NOP) =>
                /\ packet.type = net_NOP
                /\ packet.size = 0
                /\ packet.success
                /\ packet.error = None
                /\ packet.rawDataSample = None
                /\ packet.decodeSuccess = None
                /\ CursorAfter(i) = t.cursor
                /\ i < Len(w.packets) =>
                       w.packets[i + 1].packetIndex = packet.packetIndex + 1
                /\ i = Len(w.packets) =>
                       \/ w.pc = "loop"
                       \/ w.pc = "returned" /\ ~LoopGuard(w)
C5_Witness ==
    /\ Len(w.packets) > 1
    /\ TypeRead(w.packets[1]).ok /\ TypeRead(w.packets[1]).value = net_NOP
    /\ w.packets[1].success /\ w.packets[1].size = 0
    /\ w.packets[2].packetIndex = 1
    /\ w.packets[2].type # net_NOP
    /\ w.packets[2].cursor = 6

\* C6: a packet whose declared size exceeds the bytes left in the cursor is
\* recorded with a non-empty error, its payload is neither extracted nor
\* decoded, and it is the last packet of the list: the walk ends after it.
C6_OversizeIsLast ==
    \A i \in 1..Len(w.packets) :
        LET packet == w.packets[i]
            t == TypeRead(packet)
            z == SizeRead(packet)
        IN  (/\ t.ok /\ t.value # net_NOP
             /\ z.ok /\ z.value > remaining_bytes(w.data, z.cursor)) =>
                /\ packet.size = z.value
                /\ Truthy(packet.error)
                /\ ~packet.success
                /\ packet.rawDataSample = None
                /\ packet.decodeSuccess = None
                /\ packet.decodedData = None
                /\ packet.decodeError = None
                /\ i = Len(w.packets)
                /\ w.pc = "returned"
                /\ w.cursor = z.cursor
C6_Witness ==
    /\ w.pc = "returned"
    /\ Len(w.packets) = 1
    /\ w.packets[1].size = 5
    /\ w.packets[1].error = Some(SizeExceeds(5, 1))
    /\ LoopGuard(w)

\* C7: in every returned report, summary.errors is the number of chunk reports
\* with success = false, chunks without payload and network chunks whose walk
\* threw included.
C7_ChunkErrors ==
    Returned =>
        summary.errors = Cardinality({i \in 1..Len(chunks) : ~chunks[i].success})
C7_Witness ==
    /\ Returned
    /\ summary.errors = 2
    /\ \E i, j \in 1..Len(chunks) :
          /\ chunks[i].error = Some(NoDataAvailable)
          /\ chunks[j].analysisType = "network_packets"
          /\ chunks[j].networkPackets = None
          /\ chunks[j].error = Some(ReadPastEnd)

\* C8: in every returned report, summary.packetErrors is the number of packets,
\* over all chunks, with success = false or a non-empty error.
C8_PacketErrors ==
    Returned =>
        summary.packetErrors =
            Cardinality({place \in PacketPlaces :
                            \/ ~PacketAt(place).success
                            \/ Truthy(PacketAt(place).error)})
C8_Witness ==
    /\ Returned
    /\ summary.packetErrors = 2
    /\ summary.totalNetworkPackets = 3

\* C9: in every returned report, summary.packetDecodeErrors is the number of
\* packets, over all chunks, with decodeSuccess = false and a non-empty
\* decodeError; NOP packets and structurally failed packets, whose decode was
\* never attempted, are not counted.
C9_PacketDecodeErrors ==
    Returned =>
        /\ summary.packetDecodeErrors =
              Cardinality({place \in PacketPlaces :
                              /\ PacketAt(place).decodeSuccess = Some(FALSE)
                              /\ Truthy(PacketAt(place).decodeError)})
        /\ summary.packetDecodeErrors <=
              Cardinality({place \in PacketPlaces :
                              /\ PacketAt(place).success
                              /\ PacketAt(place).type # net_NOP})
C9_Witness ==
    /\ Returned
    /\ summary.packetDecodeErrors = 1
    /\ summary.totalNetworkPackets = 3
    /\ \E place \in PacketPlaces :
          PacketAt(place).type = net_NOP /\ PacketAt(place).success
    /\ \E place \in PacketPlaces : ~PacketAt(place).success

\* C10: for a fragment with at least one chunk, slowestChunk.timeMs is the
\* maximum and fastestChunk.timeMs the minimum of parseTimeMs over the chunk
\* reports, and each index is the lowest chunk index with that time.
C10_Extremes ==
    (Returned /\ Len(chunks) > 0) =>
        LET slowest == performance.slowestChunk
            fastest == performance.fastestChunk
        IN  /\ \A i \in 1..Len(chunks) :
                  /\ chunks[i].parseTimeMs <= slowest.timeMs
                  /\ chunks[i].parseTimeMs >= fastest.timeMs
            /\ slowest.index \in 0..(Len(chunks) - 1)
            /\ fastest.index \in 0..(Len(chunks) - 1)
            /\ chunks[slowest.index + 1].parseTimeMs = slowest.timeMs
            /\ chunks[fastest.index + 1].parseTimeMs = fastest.timeMs
            /\ \A i \in 1..slowest.index : chunks[i].parseTimeMs # slowest.timeMs
            /\ \A i \in 1..fastest.index : chunks[i].parseTimeMs # fastest.timeMs
C10_Witness ==
    /\ Returned
    /\ Len(chunks) = 2
    /\ chunks[1].parseTimeMs = 0
    /\ chunks[2].parseTimeMs = MaxTime
    /\ performance.slowestChunk = [index |-> 1, timeMs |-> MaxTime]
    /\ performance.fastestChunk = [index |-> 0, timeMs |-> 0]

\* C11: for a fragment with zero chunks analyzeFragment returns and the
\* performance fields hold their defaults: average 0, slowestChunk = {index 0,
\* timeMs 0} and fastestChunk = {index 0, timeMs 0}.
C11_ZeroChunkDefaults ==
    (Returned /\ totalChunks = 0) =>
        /\ performance.averageChunkParseTimeMs.num = 0
        /\ performance.slowestChunk = [index |-> 0, timeMs |-> 0]
        /\ performance.fastestChunk = [index |-> 0, timeMs |-> 0]

\* A chunk report without its measured time.
WithoutTime(report) == [report EXCEPT !.parseTimeMs = 0]
SameButTimes(a, b) ==
    /\ Len(a) = Len(b)
    /\ \A i \in 1..Len(a) : WithoutTime(a[i]) = WithoutTime(b[i])

ReturnedAtOnce(report) ==
    /\ ~report.success
    /\ report.error = Some(NoDataAvailable)
    /\ report.networkPackets = None
    /\ report.protobufData = None

\* C13 as stated: a chunk for which no payload is available, a chunk of 0
\* payload bytes decoded as one message included, is reported with success =
\* false and error = "No data available", without any walk or decode.
C13_NoPayloadOrNoBytes ==
    \A i \in 1..Len(chunks) :
        (\/ input[i].data = None
         \/ /\ input[i].data = Some(<<>>)
            /\ ~Includes(networkPacketChunks, input[i].command)) =>
            ReturnedAtOnce(chunks[i])
\* C13 as amended: a chunk whose payload is missing is reported with success =
\* false and error = "No data available", without any walk or decode; a chunk
\* whose payload is present with 0 bytes is classified and decoded like any
\* other chunk.
C13_NoPayload ==
    \A i \in 1..Len(chunks) :
        /\ input[i].data = None =>
              /\ ReturnedAtOnce(chunks[i])
              /\ chunks[i].rawDataSample = None
              /\ chunks[i].parseTimeMs = 0
        /\ input[i].data = Some(<<>>) =>
              /\ chunks[i].error # Some(NoDataAvailable)
              /\ chunks[i].rawDataSample # None
              /\ IF Includes(networkPacketChunks, input[i].command)
                 THEN \/ chunks[i].networkPackets = Some(<<>>)
                      \/ chunks[i].error = Some(ReadPastEnd)
                 ELSE /\ chunks[i].success = analyzeProtobuf(input[i].command, <<>>, env).success
                      /\ chunks[i].protobufData = analyzeProtobuf(input[i].command, <<>>, env).data
C13_Witness ==
    \E i, j \in 1..Len(chunks) :
        /\ input[i] = [command |-> DEM_FileHeader, data |-> None]
        /\ chunks[i].error = Some(NoDataAvailable)
        /\ input[j] = [command |-> DEM_FileHeader, data |-> Some(<<>>)]
        /\ chunks[j].success

\* The well-framed packet of the stream that starts where the record says: its
\* type and size fields read, the type is not NOP and the size fits the bytes left.
WellFramed(packet) ==
    /\ TypeRead(packet).ok /\ TypeRead(packet).value # net_NOP
    /\ SizeRead(packet).ok
    /\ SizeRead(packet).value <= remaining_bytes(w.data, SizeRead(packet).cursor)
\* The registries that claim a type code, and whether one of them does.
Claiming(type) ==
    {i \in 1..Len(messageTypeRegistries) : type \in Registry[messageTypeRegistries[i]].types}
Owned(type) == Claiming(type) # {}
Owner(type) ==
    messageTypeRegistries[CHOOSE i \in Claiming(type) : \A k \in Claiming(type) : i <= k]
\* The decode of a type code throws in the registry that owns it.
OwnerThrows(type) ==
    Owned(type) /\ type \in env.throwTypes /\ Owner(type) \in env.throwIn

\* C14: a well-framed packet whose payload fails to decode (its registry
\* throws, or no registry owns its type) is recorded with success = true and no
\* error, the failure shows in decodeSuccess = false and decodeError only, and
\* the walk goes on after it: only the end of the data ends the walk there.
C14_DecodeFailureContinues ==
    \A i \in 1..Len(w.packets) :
        LET packet == w.packets[i]
            type == TypeRead(packet).value
        IN  (WellFramed(packet) /\ (~Owned(type) \/ OwnerThrows(type))) =>
                /\ packet.success
                /\ packet.error = None
                /\ packet.decodeSuccess = Some(FALSE)
                /\ packet.decodeError # None
                /\ packet.decodedData = None
                /\ i < Len(w.packets) =>
                       /\ w.packets[i + 1].packetIndex = packet.packetIndex + 1
                       /\ w.packets[i + 1].cursor =
                              SizeRead(packet).cursor + 8 * SizeRead(packet).value
                /\ i = Len(w.packets) =>
                       \/ w.pc = "loop"
                       \/ w.pc = "returned" /\ ~LoopGuard(w)
C14_Witness ==
    /\ env.throwTypes = {1, 64}
    /\ Len(w.packets) = 2
    /\ WellFramed(w.packets[1]) /\ OwnerThrows(w.packets[1].type)
    /\ w.packets[1].decodeError = Some("decode failed")
    /\ w.packets[2].packetIndex = 1
    /\ w.packets[2].success

\* C15: decodeNetworkPacket runs the decode of the first registry, in the list's
\* order, that claims the type and of no other; when that decode throws the
\* result is success = false with the thrown message, whatever a later
\* registry that claims the type would have decoded.
C15_FirstClaimingDecodes ==
    call.op = "decodeNetworkPacket" =>
        LET result == call.result[1]
        IN  /\ Len(result.invoked) <= 1
            /\ Owned(call.type) =>
                  /\ result.invoked = <<Owner(call.type)>>
                  /\ IF OwnerThrows(call.type)
                     THEN /\ ~result.success
                          /\ result.error = Some(env.message)
                          /\ result.data = None
                     ELSE /\ result.success
                          /\ result.error = None
                          /\ result.data = Some([registry |-> Owner(call.type),
                                                 type |-> call.type,
                                                 bytes |-> call.data])
C15_Witness ==
    /\ call.op = "decodeNetworkPacket"
    /\ call.type = 4
    /\ Cardinality(Claiming(4)) = 2
    /\ OwnerThrows(4)
    /\ "NetMessage" \notin env.throwIn
    /\ call.result[1].invoked = <<"NetMessageBase">>
    /\ ~call.result[1].success

\* C16: a well-framed packet whose type no registry claims is recorded with
\* success = true, decodeSuccess = false and decodeError = "Unknown message
\* type: <type>", and no registry's decode is run for it.
C16_UnknownType ==
    \A i \in 1..Len(w.packets) :
        LET packet == w.packets[i]
            type == TypeRead(packet).value
            payload == read_bytes(w.data, SizeRead(packet).cursor, SizeRead(packet).value)
        IN  (WellFramed(packet) /\ ~Owned(type)) =>
                /\ packet.success
                /\ packet.error = None
                /\ packet.decodeSuccess = Some(FALSE)
                /\ packet.decodeError = Some("Unknown message type: " \o ToString(type))
                /\ packet.decodedData = None
                /\ decodeNetworkPacket(type, payload.value, env).invoked = <<>>
C16_Witness ==
    /\ Len(w.packets) > 0
    /\ WellFramed(w.packets[1])
    /\ w.packets[1].type = 2
    /\ ~Owned(2)
    /\ w.packets[1].success
    /\ w.packets[1].decodeError = Some("Unknown message type: 2")

\* The registries whose enumeration has an entry for a type code.
Naming(type) ==
    {i \in 1..Len(messageTypeRegistries) :
        /\ type \in DOMAIN Registry[messageTypeRegistries[i]].names
        /\ Registry[messageTypeRegistries[i]].names[type] # ""}

\* C17: resolveMessageTypeName returns, for every type code, the name of the
\* first registry in the list's order whose enumeration has an entry for the
\* code, and "unknown" when none has one.
C17_FirstName ==
    call.op = "resolveMessageTypeName" =>
        /\ call.result # None
        /\ IF Naming(call.type) = {}
           THEN call.result[1] = "unknown"
           ELSE \E i \in Naming(call.type) :
                   /\ \A k \in Naming(call.type) : i <= k
                   /\ call.result[1] = Registry[messageTypeRegistries[i]].names[call.type]
C17_Witness ==
    /\ call.op = "resolveMessageTypeName"
    /\ call.type = 4
    /\ Cardinality(Naming(4)) = 2
    /\ call.result = Some("net_Tick")

\* The report of a chunk that was decoded as one message.
AttemptedAsProtobuf(report, chunk) ==
    LET protobufResult == analyzeProtobuf(chunk.command, chunk.data[1], env)
    IN  /\ report.success = protobufResult.success
        /\ report.protobufData = protobufResult.data
        /\ report.error = protobufResult.error
        /\ report.networkPackets = None
\* The classification of the chunks with a payload, but for the commands
\* without a name, which get the analysis type unnamed.
Classified(unnamed) ==
    \A i \in 1..Len(chunks) :
        input[i].data # None =>
            IF input[i].command \in {DEM_Packet, DEM_SignonPacket, DEM_FullPacket,
                                      DEM_SpawnGroups}
            THEN /\ chunks[i].analysisType = "network_packets"
                 /\ chunks[i].protobufData = None
            ELSE IF input[i].command \in DOMAIN EDemoCommands
            THEN /\ chunks[i].analysisType = "protobuf"
                 /\ AttemptedAsProtobuf(chunks[i], input[i])
            ELSE /\ chunks[i].analysisType = unnamed
                 /\ chunks[i].commandName = "unknown"
                 /\ AttemptedAsProtobuf(chunks[i], input[i])

\* C18 as stated: of the chunks with a payload, the four packet-bearing
\* commands are network_packets, every other named command is protobuf, and a
\* command without a name is unknown and still decoded as one message.
C18_UnnamedIsUnknown == Classified("unknown")
\* C18 as amended: of the chunks with a payload, the four packet-bearing
\* commands are network_packets and every other command is protobuf; a command
\* without a name is protobuf too, it is decoded as one message and only its
\* commandName is "unknown".
C18_UnnamedIsProtobuf == Classified("protobuf")
C18_Witness ==
    /\ Len(chunks) = 1
    /\ input[1] = [command |-> DEM_Unnamed, data |-> Some(<<1>>)]
    /\ chunks[1].commandName = "unknown"
    /\ chunks[1].analysisType = "protobuf"
    /\ chunks[1].success
    /\ chunks[1].protobufData # None

\* C19 as stated: two chunk reports of chunks with the same command have the
\* same analysisType, whether or not a payload was available and however the
\* decoding went.
C19_TypeByCommand ==
    \A i, j \in 1..Len(chunks) :
        input[i].command = input[j].command =>
            chunks[i].analysisType = chunks[j].analysisType
\* C19 as amended: the analysisType is a function of the chunk's command and of
\* whether a payload is available: without a payload it is "unknown", and two
\* chunks with a payload and the same command have the same analysisType,
\* however the decoding went.
C19_TypeByCommandAndPayload ==
    /\ \A i \in 1..Len(chunks) :
          input[i].data = None <=> chunks[i].analysisType = "unknown"
    /\ \A i, j \in 1..Len(chunks) :
          (/\ input[i].command = input[j].command
           /\ input[i].data # None
           /\ input[j].data # None) =>
              chunks[i].analysisType = chunks[j].analysisType
C19_Witness ==
    /\ Len(chunks) = 2
    /\ input[1] = [command |-> DEM_SpawnGroups, data |-> Some(<<>>)]
    /\ input[2] = [command |-> DEM_SpawnGroups, data |-> Some(<<1>>)]
    /\ chunks[1].error = Some(ReadPastEnd)
    /\ chunks[2].networkPackets # None
    /\ chunks[1].analysisType = "network_packets"
    /\ chunks[2].analysisType = "network_packets"

\* The failure of a packet, as the record of the packet shows it: a read past
\* the end of the payload in the packet's error, a throwing decode in its
\* decodeError.
PacketFailureIsData(data, packet) ==
    LET t == read_uvarbit(data, packet.cursor)
        z == read_uvarint32(data, t.cursor)
    IN  /\ (remaining_bits(data, packet.cursor) >= TypeBits /\ ~t.ok) =>
               packet.error = Some(ReadPastEnd) /\ ~packet.success
        /\ (t.ok /\ t.value # net_NOP /\ ~z.ok) =>
               packet.error = Some(ReadPastEnd) /\ ~packet.success
        /\ (/\ t.ok /\ t.value # net_NOP /\ z.ok
            /\ z.value <= remaining_bytes(data, z.cursor)
            /\ OwnerThrows(t.value)) =>
               packet.decodeError = Some(env.message) /\ packet.decodeSuccess = Some(FALSE)
\* The failure of a chunk, as the report of the chunk shows it.
ChunkFailureIsData(chunk, report) ==
    IF Includes(networkPacketChunks, chunk.command)
    THEN LET walk == analyzeNetworkPackets(chunk.data[1], chunk.command, env)
         IN  IF walk.pc = "thrown"
             THEN report.error = walk.error /\ ~report.success
             ELSE /\ report.networkPackets # None
                  /\ \A k \in 1..Len(report.networkPackets[1]) :
                        PacketFailureIsData(chunk.data[1], report.networkPackets[1][k])
    ELSE chunk.command \in env.throwCommands =>
             report.error = Some(env.message) /\ ~report.success

\* C20: no failure in the analysis of a chunk or of a packet leaves
\* analyzeFragment as an exception: every chunk handed to the callback has its
\* report, a throwing walk, a throwing decode and a read past the end show as
\* data of the report, and the returned report has all the chunks.
C20_NothingThrown ==
    /\ pc \in {"chunks", "returned"}
    /\ Len(chunks) = Len(input)
    /\ Returned => Len(chunks) = totalChunks
    /\ \A i \in 1..Len(chunks) :
          /\ chunks[i].thrown = None
          /\ input[i].data # None => ChunkFailureIsData(input[i], chunks[i])
C20_Witness ==
    /\ Returned
    /\ Len(chunks) = 2
    /\ input[1] = [command |-> DEM_SpawnGroups, data |-> Some(<<>>)]
    /\ chunks[1].error = Some(ReadPastEnd)
    /\ input[2] = [command |-> DEM_FileHeader, data |-> Some(<<1>>)]
    /\ chunks[2].error = Some("decode failed")
    /\ ~chunks[2].success

\* The iterations of the walk that are entered from a cursor on, counted on the
\* stream itself: an iteration is entered while a whole byte is left, and it
\* is the last one when a read of it fails or its size does not fit.
RECURSIVE IterationsEntered(_, _)
IterationsEntered(data, cursor) ==
    IF remaining_bytes(data, cursor) = 0 THEN 0
    ELSE LET t == read_uvarbit(data, cursor)
             z == read_uvarint32(data, t.cursor)
         IN  IF remaining_bits(data, cursor) < TypeBits \/ ~t.ok THEN 1
             ELSE IF t.value = net_NOP THEN 1 + IterationsEntered(data, t.cursor)
             ELSE IF ~z.ok \/ z.value > remaining_bytes(data, z.cursor) THEN 1
             ELSE 1 + IterationsEntered(data, z.cursor + 8 * z.value)
\* Where the first packet of a chunk starts.
FirstPacketCursor(chunk) ==
    IF chunk.command = DEM_SpawnGroups THEN read_uvarbit(chunk.data[1], 0).cursor ELSE 0

\* C21: every chunk handed to the analysis has its chunk report, at its place,
\* and the packet list of a chunk has exactly one record for each iteration of
\* the walk that was entered, the iteration that failed included.
C21_NothingDropped ==
    /\ Len(chunks) = Len(input)
    /\ Returned => Len(chunks) = totalChunks
    /\ \A i \in 1..Len(chunks) :
          /\ chunks[i].command = input[i].command
          /\ chunks[i].networkPackets # None =>
                LET packets == chunks[i].networkPackets[1]
                IN  /\ Len(packets) =
                           IterationsEntered(input[i].data[1], FirstPacketCursor(input[i]))
                    /\ \A k \in 1..Len(packets) :
                           Cardinality({n \in 1..Len(packets) :
                               packets[n].packetIndex = k - 1}) = 1
C21_Witness ==
    /\ Returned
    /\ Len(chunks) = 2
    /\ input[1] = [command |-> DEM_Packet, data |-> Some(<<0, 1>>)]
    /\ Len(chunks[1].networkPackets[1]) = 2
    /\ chunks[1].networkPackets[1][1].success
    /\ chunks[1].networkPackets[1][2].error = Some(ReadPastEnd)
    /\ input[2] = [command |-> DEM_Packet, data |-> Some(<<1, 0>>)]
    /\ Len(chunks[2].networkPackets[1]) = 1
    /\ chunks[2].networkPackets[1][1].success

\* C22: the report of a protobuf chunk with a payload has the outcome of one
\* decode of the command registry for the chunk's command and payload: the
\* decoded message with success = true, or the thrown message with success =
\* false; no packet-type registry decodes it.
C22_OneCommandDecode ==
    \A i \in 1..Len(chunks) :
        (input[i].data # None /\ chunks[i].analysisType = "protobuf") =>
            /\ analyzeProtobuf(input[i].command, input[i].data[1], env).invoked
                   = <<"DemoCommand">>
            /\ IF input[i].command \in env.throwCommands
               THEN /\ ~chunks[i].success
                    /\ chunks[i].protobufData = None
                    /\ chunks[i].error = Some(env.message)
               ELSE /\ chunks[i].success
                    /\ chunks[i].protobufData =
                           Some([registry |-> "DemoCommand",
                                 type |-> input[i].command,
                                 bytes |-> input[i].data[1]])
                    /\ chunks[i].error = None
            /\ chunks[i].networkPackets = None
C22_Witness ==
    /\ Len(chunks) = 1
    /\ input[1] = [command |-> DEM_FileHeader, data |-> Some(<<0, 1>>)]
    /\ Owned(DEM_FileHeader)
    /\ chunks[1].analysisType = "protobuf"
    /\ chunks[1].protobufData =
           Some([registry |-> "DemoCommand", type |-> DEM_FileHeader, bytes |-> <<0, 1>>])

\* A read of the packet that starts where the record says throws: its type
\* field, or the size field of a type other than NOP.
ReadThrows(packet) ==
    \/ ~TypeRead(packet).ok
    \/ TypeRead(packet).value # net_NOP /\ ~SizeRead(packet).ok

\* C24: a packet whose read throws is recorded with the thrown message as its
\* error and success = false, and the walk ends with it; in every packet list
\* a record with success = false or with an error is the last one and the walk
\* has ended, so every earlier record has success = true and no error.
C24_OnlyLastFails ==
    /\ w.pc \in {"begin", "loop", "returned", "thrown"}
    /\ \A i \in 1..Len(w.packets) :
          /\ ReadThrows(w.packets[i]) =>
                /\ w.packets[i].error = Some(ReadPastEnd)
                /\ ~w.packets[i].success
          /\ (~w.packets[i].success \/ w.packets[i].error # None) =>
                /\ i = Len(w.packets)
                /\ w.pc = "returned"
          /\ i < Len(w.packets) =>
                /\ w.packets[i].success
                /\ w.packets[i].error = None
    /\ w.pc = "loop" =>
          \A i \in 1..Len(w.packets) : w.packets[i].success
C24_Witness ==
    /\ w.pc = "returned"
    /\ Len(w.packets) = 2
    /\ w.packets[1].success /\ w.packets[1].error = None
    /\ ReadThrows(w.packets[2])
    /\ w.packets[2].error = Some(ReadPastEnd)
    /\ ~w.packets[2].success
    /\ remaining_bits(w.data, w.cursor) > 0

\* An iteration of the walk ends the walk or moves the cursor forward.
IterationAdvances ==
    (w.pc = "loop" /\ LoopGuard(w)) =>
        \/ w'.pc = "returned"
        \/ w'.cursor > w.cursor /\ w'.cursor <= 8 * Len(w.data)

\* C25: every iteration of the walk ends the walk or advances the cursor by at
\* least one bit, a NOP and a packet of size 0 included, and the cursor never
\* passes the end of the payload, so the walk ends after at most as many
\* iterations as the payload has bits; the packet list never has more records
\* than that.
C25_WalkTerminates ==
    /\ [][IterationAdvances]_vars
    /\ [](w.cursor <= 8 * Len(w.data))
    /\ [](Len(w.packets) <= 8 * Len(w.data))
C25_Witness ==
    /\ w.pc = "returned"
    /\ Len(w.packets) = 3
    /\ \A i \in 1..3 : w.packets[i].type = net_NOP /\ w.packets[i].cursor = 6 * (i - 1)
    /\ w.cursor = 18

\* The sample of a payload: the hex of its first 20 bytes, or of all of them if
\* they are fewer, and of its last 10 bytes, or of all of them if they are fewer.
SampleOf(data) ==
    LET first == Min(20, Len(data))
        last == Min(10, Len(data))
    IN  [first20Bytes |-> toHex([k \in 1..first |-> data[k]]),
         last10Bytes |-> toHex([k \in 1..last |-> data[Len(data) - last + k]])]

\* C26 as stated: every chunk report has a sample, the one of its payload, and
\* a chunk without a payload has the sample of no bytes and no error.
C26_EveryReportSampled ==
    \A i \in 1..Len(chunks) :
        IF input[i].data = None
        THEN /\ chunks[i].rawDataSample = Some(SampleOf(<<>>))
             /\ chunks[i].error = None
        ELSE chunks[i].rawDataSample = Some(SampleOf(input[i].data[1]))
\* C26 as amended: the report of a chunk with a payload has the sample of the
\* payload, shorter for a short payload and two empty strings for a payload
\* of 0 bytes; the report of a chunk without a payload has no sample, and the
\* error "No data available".
C26_PayloadSampled ==
    \A i \in 1..Len(chunks) :
        IF input[i].data = None
        THEN /\ chunks[i].rawDataSample = None
             /\ chunks[i].error = Some(NoDataAvailable)
        ELSE /\ chunks[i].rawDataSample = Some(SampleOf(input[i].data[1]))
             /\ input[i].data[1] = <<>> =>
                    chunks[i].rawDataSample =
                        Some([first20Bytes |-> "", last10Bytes |-> ""])
C26_Witness ==
    /\ Len(chunks) = 1
    /\ input[1].data = Some(SamplePayload(21, 1))
    /\ chunks[1].rawDataSample # None
    /\ chunks[1].rawDataSample[1].first20Bytes =
           "01 02 03 04 05 06 07 08 09 0a 0b 0c 0d 0e 0f 10 11 12 13 14"
    /\ chunks[1].rawDataSample[1].last10Bytes = "0c 0d 0e 0f 10 11 12 13 14 15"

\* The packet record at position k of a packet list over a payload is sound:
\* if it has success = true and a type other than NOP, its size is the size
\* field of the stream and fits the whole bytes left behind that field, the
\* payload ends inside the buffer, the sample is the hex of the first
\* min(size, 10) payload bytes, the next record starts right behind the
\* payload, and remainingBytesAfter is the bytes left before minus size.
PayloadSound(data, packets, k) ==
    LET packet == packets[k]
        t == read_uvarbit(data, packet.cursor)
        z == read_uvarint32(data, t.cursor)
        before == remaining_bytes(data, z.cursor)
        kept == Min(packet.size, 10)
    IN  (packet.success /\ packet.type # net_NOP) =>
            /\ t.ok /\ z.ok
            /\ packet.size = z.value
            /\ packet.size <= before
            /\ z.cursor + 8 * packet.size <= 8 * Len(data)
            /\ packet.rawDataSample =
                   Some(toHex([j \in 1..kept |-> BitsValue(data, z.cursor + 8 * (j - 1), 8)]))
            /\ packet.remainingBytesAfter = before - packet.size
            /\ k < Len(packets) => packets[k + 1].cursor = z.cursor + 8 * packet.size

\* C27: every packet recorded with success = true and a type other than NOP
\* has a size that fitted the bytes left when it was checked, exactly size
\* bytes extracted from inside the buffer, min(size, 10) of them in its sample
\* and remainingBytesAfter = bytes left before - size; over the successful
\* packets of a chunk remainingBytesAfter never grows.
C27_PayloadInsideBuffer ==
    \A i \in 1..Len(chunks) :
        chunks[i].networkPackets # None =>
            LET packets == chunks[i].networkPackets[1]
                data == input[i].data[1]
            IN  /\ \A k \in 1..Len(packets) : PayloadSound(data, packets, k)
                /\ \A k, n \in 1..Len(packets) :
                      (k < n /\ packets[k].success /\ packets[n].success) =>
                          packets[k].remainingBytesAfter >= packets[n].remainingBytesAfter
C27_Witness ==
    /\ Len(chunks) = 1
    /\ input[1] = [command |-> DEM_Packet, data |-> Some(SamplePayload(22, 66))]
    /\ chunks[1].networkPackets # None
    /\ Len(chunks[1].networkPackets[1]) > 1
    /\ chunks[1].networkPackets[1][1].success
    /\ chunks[1].networkPackets[1][1].type = 2
    /\ chunks[1].networkPackets[1][1].size = 17
    /\ chunks[1].networkPackets[1][1].remainingBytesAfter = 3
    /\ chunks[1].networkPackets[1][2].cursor = 150

\* The chunk reports with an analysis type.
ReportsOfType(type) == {i \in 1..Len(chunks) : chunks[i].analysisType = type}

\* C28: the three chunk counters of the summary are the numbers of chunk
\* reports with analysisType network_packets, protobuf and unknown, and in a
\* returned report they sum to totalChunks.
C28_CategoryCounters ==
    /\ summary.networkPacketChunks = Cardinality(ReportsOfType("network_packets"))
    /\ summary.protobufChunks = Cardinality(ReportsOfType("protobuf"))
    /\ summary.unknownChunks = Cardinality(ReportsOfType("unknown"))
    /\ Returned =>
          summary.networkPacketChunks + summary.protobufChunks + summary.unknownChunks
              = totalChunks
C28_Witness ==
    /\ Returned
    /\ totalChunks = 2
    /\ chunks[1].analysisType = "unknown"
    /\ chunks[2].analysisType = "network_packets"
    /\ chunks[2].networkPackets = None
    /\ summary.unknownChunks = 1
    /\ summary.networkPacketChunks = 1
    /\ summary.protobufChunks = 0

\* C29: the walk of a spawn-groups chunk first consumes one variable-width
\* field, so its first packet starts behind that field, at a cursor above 0;
\* when that first read throws the chunk report has the thrown message as
\* error, success = false and no packet list, it is a network_packets report
\* counted as such, it adds no packets and no packet errors to the summary,
\* and the chunks after it are analyzed.
C29_SpawnGroupsLeadingField ==
    /\ \A i \in 1..Len(chunks) :
          (input[i].command = DEM_SpawnGroups /\ input[i].data # None) =>
              LET lead == read_uvarbit(input[i].data[1], 0)
              IN  /\ chunks[i].analysisType = "network_packets"
                  /\ IF lead.ok
                     THEN /\ chunks[i].networkPackets # None
                          /\ chunks[i].error = None
                          /\ Len(chunks[i].networkPackets[1]) > 0 =>
                                /\ chunks[i].networkPackets[1][1].cursor = lead.cursor
                                /\ chunks[i].networkPackets[1][1].cursor > 0
                     ELSE /\ chunks[i].error = Some(lead.error)
                          /\ ~chunks[i].success
                          /\ chunks[i].networkPackets = None
    /\ summary.networkPacketChunks =
           Cardinality({i \in 1..Len(chunks) :
               input[i].data # None /\ Includes(networkPacketChunks, input[i].command)})
    /\ summary.totalNetworkPackets = Cardinality(PacketPlaces)
    /\ summary.packetErrors <= Cardinality(PacketPlaces)
    /\ Len(chunks) = Len(input)
    /\ Returned => Len(chunks) = totalChunks
C29_Witness ==
    /\ Returned
    /\ Len(chunks) = 2
    /\ input[1] = [command |-> DEM_SpawnGroups, data |-> Some(<<>>)]
    /\ chunks[1].error = Some(ReadPastEnd)
    /\ chunks[1].networkPackets = None
    /\ input[2] = [command |-> DEM_SpawnGroups, data |-> Some(<<0, 1>>)]
    /\ chunks[2].networkPackets # None
    /\ Len(chunks[2].networkPackets[1]) = 1
    /\ chunks[2].networkPackets[1][1].cursor = 6
    /\ summary.networkPacketChunks = 2
    /\ summary.totalNetworkPackets = 1

\* The bits left behind the walker's cursor.
BitsLeft == remaining_bits(w.data, w.cursor)

\* C30: every iteration of the walk starts with at least 8 bits left, so no
\* record has the error of fewer than 4 bits for a packet type; a walk whose
\* packets all succeeded and that returns with 1 to 7 bits left has no record
\* for those bits and no error.
C30_TrailingBitsIgnored ==
    /\ \A i \in 1..Len(w.packets) :
          /\ remaining_bits(w.data, w.packets[i].cursor) >= 8
          /\ \A n \in 0..(TypeBits - 1) : w.packets[i].error # Some(NotEnoughBits(n))
    /\ (/\ w.pc = "returned"
        /\ BitsLeft \in 1..7
        /\ \A i \in 1..Len(w.packets) : w.packets[i].success) =>
          /\ w.error = None
          /\ \A i \in 1..Len(w.packets) :
                /\ w.packets[i].error = None
                /\ w.packets[i].cursor < w.cursor
    /\ (w.pc = "loop" /\ BitsLeft < 8) => ~LoopGuard(w)
C30_Witness ==
    /\ w.pc = "returned"
    /\ w.data = <<1, 0>>
    /\ Len(w.packets) = 1
    /\ w.packets[1].success
    /\ w.packets[1].error = None
    /\ BitsLeft = 2

====
